---- MODULE Spec2Model ----
(***************************************************************************)
(* The recording-processing pipeline of the voice-note application:       *)
(* ProcessingPipeline.process (services/export.ts) with the stages it      *)
(* drives, AudioUtils.uploadWithRetry / uploadToSupabase (utils/           *)
(* audioUtils.ts), TranscriptionService.transcribeWithRetry / transcribe   *)
(* (services/transcription.ts), EnhancementService.enhance (services/      *)
(* enhancement.ts) and the storage / database wrappers of lib/supabase.    *)
(*                                                                         *)
(* One run of process is a state machine that moves at its await points.   *)
(* The object store, the database, the two AI providers and the local      *)
(* file system are the environment: each call's outcome is chosen          *)
(* nondeterministically when the call is made.                             *)
(*                                                                         *)
(* Strings whose content matters are sequences: a text is a sequence of    *)
(* one-character strings, a storage path or URL is the sequence of its     *)
(* '/'-separated segments.  The cost, language and duration accumulators   *)
(* of process are left out: no stage reads them.  The onProgress and       *)
(* onStageComplete callbacks are recorded in events and return normally.   *)
(***************************************************************************)
EXTENDS Integers, Sequences, FiniteSets, TLC

(***************************************************************************)
(* Program constants                                                       *)
(***************************************************************************)
\* default of the maxRetries parameter of uploadWithRetry
UploadMaxRetries == 3

\* default of the maxRetries parameter of transcribeWithRetry
TranscribeMaxRetries == 3

\* maxSize of uploadToSupabase, 50 MiB in bytes
UploadMaxSize == 52428800

\* maxSize of transcribe, 25 MiB in bytes
TranscribeMaxSize == 26214400

\* the fraction of the overall progress scale reserved for the upload stage
UploadBand == 25

Styles == {"note", "email", "blog", "summary", "transcript", "custom"}

Stages == {"uploading", "transcribing", "enhancing", "saving", "complete", "error"}

(***************************************************************************)
(* Texts                                                                   *)
(***************************************************************************)
Whitespace == {" ", "\n"}

RECURSIVE TrimStart(_)
TrimStart(t) ==
  IF t = <<>> THEN <<>>
  ELSE IF Head(t) \in Whitespace THEN TrimStart(Tail(t)) ELSE t

RECURSIVE TrimEnd(_)
TrimEnd(t) ==
  IF t = <<>> THEN <<>>
  ELSE IF t[Len(t)] \in Whitespace THEN TrimEnd(SubSeq(t, 1, Len(t) - 1)) ELSE t

\* String.prototype.trim
Trim(t) == TrimEnd(TrimStart(t))

\* a blank test that forgets trim()
IsBlank_LengthOnly(t) == Len(t) = 0

\* !text || text.trim().length === 0
IsBlank(t) == Len(t) = 0 \/ Len(Trim(t)) = 0

\* a word count that forgets filter(w => w.length > 0): split(/\s+/) yields an
\* empty string before leading and after trailing whitespace
WordCount_NoFilter(t) ==
  IF t = <<>> THEN 1
  ELSE Cardinality({ i \in 1..Len(t) :
                      /\ t[i] \notin Whitespace
                      /\ (i = 1 \/ t[i - 1] \in Whitespace) })
       + (IF t[1] \in Whitespace THEN 1 ELSE 0)
       + (IF t[Len(t)] \in Whitespace /\ \E i \in 1..Len(t) : t[i] \notin Whitespace
            THEN 1 ELSE 0)

RECURSIVE CountWords(_, _)
CountWords(t, inWord) ==
  IF t = <<>> THEN 0
  ELSE IF Head(t) \in Whitespace THEN CountWords(Tail(t), FALSE)
  ELSE (IF inWord THEN 0 ELSE 1) + CountWords(Tail(t), TRUE)

\* text.split(/\s+/).filter(w => w.length > 0).length
WordCount(t) == CountWords(t, FALSE)

\* text.length
CharacterCount(t) == Len(t)

NoText == <<>>

\* the text "hello world foo"
HelloWorldFoo ==
  <<"h", "e", "l", "l", "o", " ", "w", "o", "r", "l", "d", " ", "f", "o", "o">>

\* what the transcription provider may return as response.text
TranscriptTexts ==
  { <<>>, <<" ", "\n">>, <<"h", "i">>, <<" ", "a", " ", "b", "c", " ">>,
    HelloWorldFoo }

\* what the generation provider may return as message.content
EnhancedTexts == { <<>>, <<" ">>, <<"O", "k", ".">>, HelloWorldFoo }

(***************************************************************************)
(* Storage paths and URLs                                                  *)
(***************************************************************************)
\* the file-name segment `${recordingId}.m4a`
FileName(recordingId) == <<recordingId, "m4a">>

\* an upload path that does not depend on the recording
UploadPath_SharedName(userId, recordingId) == <<userId, FileName("audio")>>

\* filePath of uploadAudioFile: `${userId}/${recordingId}.m4a`
UploadPath(userId, recordingId) == <<userId, FileName(recordingId)>>

BucketUrl ==
  <<"https:", "", "project.supabase.co", "storage", "v1", "object", "public",
    "audio-recordings">>

\* getPublicUrl(filePath).publicUrl
PublicUrl(path) == BucketUrl \o path

NoUrl == <<>>

\* cleanup paths a slip in the catch block would build
CleanupPath_FileNameOnly(userId, url) == <<url[Len(url)]>>

CleanupPath_WholeUrl(userId, url) == url

\* filePath of the catch block: `${userId}/${pathParts[pathParts.length - 1]}`
CleanupPath(userId, url) == <<userId, url[Len(url)]>>

\* a catch block without the cleanup
CleanupNeeded_Never(url) == FALSE

\* if (audioUrl) in the catch block
CleanupNeeded(url) == url # NoUrl

(***************************************************************************)
(* Retry policy                                                            *)
(***************************************************************************)
RECURSIVE Pow2(_)
Pow2(n) == IF n = 0 THEN 1 ELSE 2 * Pow2(n - 1)

\* a linear instead of an exponential backoff
UploadBackoffMs_Linear(attempt) == attempt * 1000

\* uploadWithRetry: waitTime = Math.pow(2, attempt) * 1000
UploadBackoffMs(attempt) == Pow2(attempt) * 1000

\* uploadWithRetry: if (attempt > 0)
UploadNeedsBackoff(attempt) == attempt > 0

\* a backoff that sleeps before the first attempt too
TranscribeNeedsBackoff_Always(attempt) == TRUE

\* transcribeWithRetry: if (attempt > 0)
TranscribeNeedsBackoff(attempt) == attempt > 0

\* transcribeWithRetry: waitTime = Math.pow(2, attempt) * 1000
TranscribeBackoffMs(attempt) == Pow2(attempt) * 1000

\* an upload percentage passed on without the remapping
UploadOverall_Unscaled(percentage) == percentage

\* overallProgress = (progress.percentage / 100) * 25
UploadOverall(percentage) == (percentage * UploadBand) \div 100

\* getStageProgressRange(stage)
StageProgressRange(stage) ==
  CASE stage = "uploading" -> [min |-> 0, max |-> 25]
    [] stage = "transcribing" -> [min |-> 25, max |-> 60]
    [] stage = "enhancing" -> [min |-> 60, max |-> 90]
    [] stage = "saving" -> [min |-> 90, max |-> 100]
    [] stage = "complete" -> [min |-> 100, max |-> 100]
    [] OTHER -> [min |-> 0, max |-> 0]

(***************************************************************************)
(* Errors and results                                                      *)
(***************************************************************************)
Err(stage, kind, attempt) == [stage |-> stage, kind |-> kind, attempt |-> attempt]

NoError == Err("none", "none", 0)

\* the ProcessingResult returned by process; status "none" while it runs
NoResult ==
  [status |-> "none", recordingId |-> "", audioUrl |-> NoUrl,
   originalTranscript |-> NoText, enhancedTranscript |-> NoText,
   wordCount |-> 0, characterCount |-> 0, error |-> NoError]

NoCalls ==
  [upload |-> 0, transcribe |-> 0, enhance |-> 0, complete |-> 0,
   insert |-> 0, delete |-> 0]

ProgressEvent(stage, pct) == [cb |-> "progress", stage |-> stage, pct |-> pct]

StageEvent(stage) == [cb |-> "stage", stage |-> stage, pct |-> 0]

(***************************************************************************)
(* State                                                                   *)
(***************************************************************************)
VARIABLES
  opts,                \* the ProcessingOptions of the run
  file,                \* the local audio file behind opts.audioUri
  pc,                  \* the await point the run is suspended at
  attempt,             \* loop variable of the retry loop in progress
  lastError,           \* lastError of the retry loop in progress
  audioUrl,            \* locals of process
  originalTranscript,
  enhancedTranscript,
  thrown,              \* the error caught by the catch block of process
  result,              \* the ProcessingResult returned by process
  store,               \* paths of the objects in the audio-recordings bucket
  db,                  \* rows of the recordings table
  events,              \* the onProgress / onStageComplete calls made, in order
  waits,               \* the backoff sleeps made, in order
  upLog,               \* outcome of every uploadToSupabase attempt
  trLog,               \* outcome of every transcribe attempt
  stageResult,         \* what uploadWithRetry / transcribeWithRetry / enhance returned
  calls,               \* number of calls made to each external operation
  deleteLog,           \* the remove() calls made on the bucket
  other,               \* the locals of a second run of process that is suspended
  persisted,           \* OfflineQueue: the queue stored under QUEUE_KEY
  isOnline,            \* OfflineQueue.isOnline
  isSyncing,           \* OfflineQueue.isSyncing
  passes,              \* the syncQueue calls suspended in their loop
  passesStarted,       \* number of syncQueue calls that got past the guard
  nextOp,              \* number of the next operation to be enqueued
  netEvents,           \* number of connectivity events delivered
  syncCalls,           \* number of calls of syncQueue
  execLog,             \* the executeOperation calls that have settled, in order
  boot                 \* what the counters and the stored queue were at process start

pipelineVars ==
  <<opts, file, pc, attempt, lastError, audioUrl, originalTranscript,
    enhancedTranscript, thrown, result, store, db, events, waits, upLog, trLog,
    stageResult, calls, deleteLog, other>>

queueVars ==
  <<persisted, isOnline, isSyncing, passes, passesStarted, nextOp, netEvents,
    syncCalls, execLog, boot>>

vars == <<pipelineVars, queueVars>>

UserId == "user_1"

RecordingId == "rec_1700000000001"

\* an object of an earlier recording of the same user
EarlierPath == UploadPath(UserId, "rec_1700000000000")

Options ==
  { [userId |-> UserId, recordingId |-> RecordingId, style |-> s,
     isPremium |-> p, customPrompt |-> c] :
       s \in Styles, p \in BOOLEAN, c \in {"", "Answer in rhyme"} }

Files ==
  { [exists |-> FALSE, size |-> 0] } \cup
  { [exists |-> TRUE, size |-> n] : n \in {1048576, UploadMaxSize, 62914560} }

NoStageResult ==
  [upload |-> [returned |-> FALSE, url |-> NoUrl, error |-> NoError],
   transcription |-> [returned |-> FALSE, text |-> NoText, error |-> NoError],
   enhancement |-> [returned |-> FALSE, enhanced |-> NoText, error |-> NoError],
   persistence |-> [returned |-> FALSE, id |-> ""]]

\* the OfflineQueue of a fresh process with nothing stored
QueueInit ==
  /\ persisted = <<>>
  /\ isOnline = TRUE
  /\ isSyncing = FALSE
  /\ passes = <<>>
  /\ passesStarted = 0
  /\ nextOp = 1
  /\ netEvents = 0
  /\ syncCalls = 0
  /\ execLog = <<>>
  /\ boot = [n |-> 0, netEvents |-> 0, passesStarted |-> 0, syncCalls |-> 0,
             stored |-> <<>>]

\* the second recording
OtherRecordingId == "rec_1700000000002"

\* the locals of a run of process for the second recording that has not started
OtherRunStart ==
  [opts |-> [userId |-> UserId, recordingId |-> OtherRecordingId, style |-> "note",
             isPremium |-> FALSE, customPrompt |-> ""],
   file |-> [exists |-> TRUE, size |-> 1048576],
   pc |-> "start", attempt |-> 0, lastError |-> NoError, audioUrl |-> NoUrl,
   originalTranscript |-> NoText, enhancedTranscript |-> NoText,
   thrown |-> NoError, result |-> NoResult, events |-> <<>>, waits |-> <<>>,
   upLog |-> <<>>, trLog |-> <<>>, stageResult |-> NoStageResult,
   calls |-> NoCalls, deleteLog |-> <<>>]

Init ==
  /\ QueueInit
  /\ other = OtherRunStart
  /\ opts \in Options
  /\ file \in Files
  /\ pc = "start"
  /\ attempt = 0
  /\ lastError = NoError
  /\ audioUrl = NoUrl
  /\ originalTranscript = NoText
  /\ enhancedTranscript = NoText
  /\ thrown = NoError
  /\ result = NoResult
  /\ store = {EarlierPath}
  /\ db = {}
  /\ events = <<>>
  /\ waits = <<>>
  /\ upLog = <<>>
  /\ trLog = <<>>
  /\ stageResult = NoStageResult
  /\ calls = NoCalls
  /\ deleteLog = <<>>

(***************************************************************************)
(* The catch block and the two return statements of process                *)
(***************************************************************************)
\* an error return that carries the counts of the transcript at hand
ErrorResult_WithCounts(err) ==
  [status |-> "error", recordingId |-> opts.recordingId, audioUrl |-> audioUrl,
   originalTranscript |-> originalTranscript,
   enhancedTranscript |-> enhancedTranscript,
   wordCount |-> WordCount(enhancedTranscript),
   characterCount |-> CharacterCount(enhancedTranscript), error |-> err]

\* the return statement of the catch block of process
ErrorResult(err) ==
  [status |-> "error", recordingId |-> opts.recordingId, audioUrl |-> audioUrl,
   originalTranscript |-> originalTranscript,
   enhancedTranscript |-> enhancedTranscript,
   wordCount |-> 0, characterCount |-> 0, error |-> err]

SuccessResult(rowId) ==
  [status |-> "ok", recordingId |-> rowId, audioUrl |-> audioUrl,
   originalTranscript |-> originalTranscript,
   enhancedTranscript |-> enhancedTranscript,
   wordCount |-> WordCount(enhancedTranscript),
   characterCount |-> CharacterCount(enhancedTranscript), error |-> NoError]

\* catch (error) { onProgress(ERROR, 0); onStageComplete(ERROR); if (audioUrl) ... }
\* evs: the callbacks made in this step before the throw
Catch(err, evs) ==
  /\ events' = evs \o <<ProgressEvent("error", 0), StageEvent("error")>>
  /\ thrown' = err
  /\ IF CleanupNeeded(audioUrl)
       THEN pc' = "cleanup" /\ result' = result
       ELSE pc' = "done" /\ result' = ErrorResult(err)

\* the head of iteration n of the loop of uploadWithRetry: sleep first, or try
UploadLoopHead(n) == IF UploadNeedsBackoff(n) THEN "up_wait" ELSE "up_info"

\* the head of iteration n of the loop of transcribeWithRetry
TranscribeLoopHead(n) == IF TranscribeNeedsBackoff(n) THEN "tr_wait" ELSE "tr_info"

(***************************************************************************)
(* Stage 1: AudioUtils.uploadWithRetry around uploadToSupabase             *)
(***************************************************************************)
\* process is entered: onProgress(UPLOADING, 0), then the first loop iteration
Start ==
  /\ pc = "start"
  /\ events' = Append(events, ProgressEvent("uploading", 0))
  /\ attempt' = 0
  /\ lastError' = NoError
  /\ pc' = UploadLoopHead(0)
  /\ UNCHANGED <<opts, file, audioUrl, originalTranscript, enhancedTranscript,
                 thrown, result, store, db, waits, upLog, trLog, stageResult,
                 calls, deleteLog>>

\* await new Promise(resolve => setTimeout(resolve, waitTime))
UploadBackoff ==
  /\ pc = "up_wait"
  /\ waits' = Append(waits, [stage |-> "upload", attempt |-> attempt,
                             ms |-> UploadBackoffMs(attempt)])
  /\ pc' = "up_info"
  /\ UNCHANGED <<opts, file, attempt, lastError, audioUrl, originalTranscript,
                 enhancedTranscript, thrown, result, store, db, events, upLog,
                 trLog, stageResult, calls, deleteLog>>

\* an uploadToSupabase attempt ended in its catch block with err: the loop of
\* uploadWithRetry goes on, or returns lastError and process throws
UploadAttemptFailed(err, evs) ==
  /\ upLog' = Append(upLog, err)
  /\ lastError' = err
  /\ IF attempt + 1 < UploadMaxRetries
       THEN /\ attempt' = attempt + 1
            /\ pc' = UploadLoopHead(attempt + 1)
            /\ events' = evs
            /\ UNCHANGED <<stageResult, thrown, result>>
       ELSE /\ attempt' = attempt
            /\ stageResult' = [stageResult EXCEPT !.upload =
                 [returned |-> TRUE, url |-> NoUrl, error |-> err]]
            /\ Catch(err, evs)

\* the two validations at the head of uploadToSupabase
UploadValidation(f) ==
  IF ~f.exists THEN "missing"
  ELSE IF f.size # 0 /\ f.size > UploadMaxSize THEN "too_large"
  ELSE "none"

\* const fileInfo = await FileSystem.getInfoAsync(audioUri), and the validation
UploadGetInfo ==
  /\ pc = "up_info"
  /\ IF UploadValidation(file) # "none"
       THEN UploadAttemptFailed(Err("upload", UploadValidation(file), attempt), events)
       ELSE /\ pc' = "up_blob"
            /\ UNCHANGED <<attempt, lastError, thrown, result, events, upLog,
                           stageResult>>
  /\ UNCHANGED <<opts, file, audioUrl, originalTranscript, enhancedTranscript,
                 store, db, waits, trLog, calls, deleteLog>>

\* const blob = await this.fileUriToBlob(audioUri), then onProgress({percentage: 0})
UploadBlob ==
  /\ pc = "up_blob"
  /\ \E ok \in BOOLEAN :
       IF ok
         THEN /\ events' = Append(events, ProgressEvent("uploading", UploadOverall(0)))
              /\ pc' = "up_send"
              /\ UNCHANGED <<attempt, lastError, thrown, result, upLog, stageResult>>
         ELSE UploadAttemptFailed(Err("upload", "blob", attempt), events)
  /\ UNCHANGED <<opts, file, audioUrl, originalTranscript, enhancedTranscript,
                 store, db, waits, trLog, calls, deleteLog>>

\* what storage.upload(filePath, blob, {upsert: false}) can answer:
\* "lost" stores the object and reports an error to the client
UploadOutcomes(path) ==
  IF path \in store THEN {"exists"} ELSE {"ok", "err", "lost"}

\* the callbacks of a successful uploadToSupabase followed by those of process up
\* to the call of transcribeWithRetry
UploadDoneEvents ==
  <<ProgressEvent("uploading", UploadOverall(100)),
    ProgressEvent("uploading", 25),
    StageEvent("uploading"),
    ProgressEvent("transcribing", 25)>>

\* await uploadAudioFile(userId, recordingId, blob): on success uploadWithRetry
\* returns and process goes on to stage 2
UploadSend ==
  /\ pc = "up_send"
  /\ calls' = [calls EXCEPT !.upload = @ + 1]
  /\ LET path == UploadPath(opts.userId, opts.recordingId) IN
     \E outcome \in UploadOutcomes(path) :
       /\ store' = IF outcome \in {"ok", "lost"} THEN store \cup {path} ELSE store
       /\ IF outcome = "ok"
            THEN /\ upLog' = Append(upLog, NoError)
                 /\ stageResult' = [stageResult EXCEPT !.upload =
                      [returned |-> TRUE, url |-> PublicUrl(path), error |-> NoError]]
                 /\ audioUrl' = PublicUrl(path)
                 /\ events' = events \o UploadDoneEvents
                 /\ attempt' = 0
                 /\ lastError' = NoError
                 /\ pc' = TranscribeLoopHead(0)
                 /\ UNCHANGED <<thrown, result>>
            ELSE /\ UploadAttemptFailed(
                      Err("upload", IF outcome = "exists" THEN "exists" ELSE "provider",
                          attempt), events)
                 /\ UNCHANGED audioUrl
  /\ UNCHANGED <<opts, file, originalTranscript, enhancedTranscript, db, waits,
                 trLog, deleteLog>>

(***************************************************************************)
(* Stage 3 as seen from process: EnhancementService.enhance                *)
(***************************************************************************)
\* the three input validations of enhance, made before the provider is called
EnhanceValidation(transcript, o) ==
  IF IsBlank(transcript) THEN "empty_transcript"
  ELSE IF o.style = "custom" /\ ~o.isPremium THEN "premium_only"
  ELSE IF o.style = "custom" /\ o.customPrompt = "" THEN "prompt_required"
  ELSE "none"

\* an enhance that swallows its failure
EnhanceFailed_Silent(kind) ==
  [returned |-> TRUE, enhanced |-> NoText, error |-> NoError]

\* return { enhanced: '', style, ..., error }
EnhanceFailed(kind) ==
  [returned |-> TRUE, enhanced |-> NoText, error |-> Err("enhancement", kind, 0)]

\* an enhance that forgets to validate the output of the provider
EnhanceReturn_NoOutputCheck(out) ==
  IF ~out.ok THEN EnhanceFailed("provider")
  ELSE [returned |-> TRUE, enhanced |-> out.text, error |-> NoError]

\* what enhance returns for the answer out of enhanceTranscript
EnhanceReturn(out) ==
  IF ~out.ok THEN EnhanceFailed("provider")
  ELSE IF IsBlank(out.text) THEN EnhanceFailed("empty_output")
  ELSE [returned |-> TRUE, enhanced |-> out.text, error |-> NoError]

\* a stage 3 that forgets the fallback
FinalTranscript_NoFallback(original, enhancement) == enhancement.enhanced

\* if (enhancementResult.error) enhancedTranscript = originalTranscript
\* else enhancedTranscript = enhancementResult.enhanced
FinalTranscript(original, enhancement) ==
  IF enhancement.error # NoError THEN original ELSE enhancement.enhanced

\* a stage 3 that reports its end with the end of the whole run
EnhanceDoneEvents_Overshoot ==
  <<ProgressEvent("enhancing", 100),
    StageEvent("enhancing"),
    ProgressEvent("saving", 90)>>

\* the callbacks of process between the return of enhance and createRecording
EnhanceDoneEvents ==
  <<ProgressEvent("enhancing", 90),
    StageEvent("enhancing"),
    ProgressEvent("saving", 90)>>

(***************************************************************************)
(* Stage 2: TranscriptionService.transcribeWithRetry around transcribe     *)
(***************************************************************************)
\* a process that checks transcriptionResult.error only
TranscriptionThrow_ErrorOnly(res) == res.error

\* the two checks of process on transcriptionResult; NoError: nothing is thrown
TranscriptionThrow(res) ==
  IF res.error # NoError THEN res.error
  ELSE IF IsBlank(res.text) THEN Err("transcription", "empty", 0)
  ELSE NoError

\* transcribeWithRetry returned res: process checks it and, when it is usable,
\* goes on to stage 3 up to the provider call of enhance.  cs: calls so far
AfterTranscription(res, cs) ==
  LET sr == [stageResult EXCEPT !.transcription = res]
      e == TranscriptionThrow(res)
      evs == events \o <<ProgressEvent("transcribing", 60),
                         StageEvent("transcribing"),
                         ProgressEvent("enhancing", 60)>>
      v == EnhanceValidation(res.text, opts)
  IN IF e # NoError
       THEN /\ Catch(e, events)
            /\ stageResult' = sr
            /\ calls' = cs
            /\ UNCHANGED <<originalTranscript, enhancedTranscript>>
       ELSE /\ originalTranscript' = res.text
            /\ calls' = [cs EXCEPT !.enhance = @ + 1]
            /\ UNCHANGED <<thrown, result>>
            /\ IF v # "none"
                 THEN /\ stageResult' = [sr EXCEPT !.enhancement = EnhanceFailed(v)]
                      /\ enhancedTranscript' = FinalTranscript(res.text, EnhanceFailed(v))
                      /\ events' = evs \o EnhanceDoneEvents
                      /\ pc' = "save"
                 ELSE /\ stageResult' = sr
                      /\ UNCHANGED enhancedTranscript
                      /\ events' = evs
                      /\ pc' = "enh_call"

\* a transcribe attempt ended in its catch block with err
TranscribeAttemptFailed(err, cs) ==
  /\ trLog' = Append(trLog, err)
  /\ lastError' = err
  /\ IF attempt + 1 < TranscribeMaxRetries
       THEN /\ attempt' = attempt + 1
            /\ pc' = TranscribeLoopHead(attempt + 1)
            /\ calls' = cs
            /\ UNCHANGED <<events, thrown, result, stageResult,
                           originalTranscript, enhancedTranscript>>
       ELSE /\ attempt' = attempt
            /\ AfterTranscription(
                 [returned |-> TRUE, text |-> NoText, error |-> err], cs)

TranscribeBackoff ==
  /\ pc = "tr_wait"
  /\ waits' = Append(waits, [stage |-> "transcription", attempt |-> attempt,
                             ms |-> TranscribeBackoffMs(attempt)])
  /\ pc' = "tr_info"
  /\ UNCHANGED <<opts, file, attempt, lastError, audioUrl, originalTranscript,
                 enhancedTranscript, thrown, result, store, db, events, upLog,
                 trLog, stageResult, calls, deleteLog>>

\* the two validations at the head of transcribe
TranscribeValidation(f) ==
  IF ~f.exists THEN "missing"
  ELSE IF f.size # 0 /\ f.size > TranscribeMaxSize THEN "too_large"
  ELSE "none"

\* const fileInfo = await FileSystem.getInfoAsync(audioUri), and the validation
TranscribeGetInfo ==
  /\ pc = "tr_info"
  /\ IF TranscribeValidation(file) # "none"
       THEN TranscribeAttemptFailed(
              Err("transcription", TranscribeValidation(file), attempt), calls)
       ELSE /\ pc' = "tr_blob"
            /\ UNCHANGED <<attempt, lastError, trLog, calls, events, thrown, result,
                           stageResult, originalTranscript, enhancedTranscript>>
  /\ UNCHANGED <<opts, file, audioUrl, store, db, waits, upLog, deleteLog>>

\* const blob = await this.fileUriToBlob(audioUri)
TranscribeBlob ==
  /\ pc = "tr_blob"
  /\ \E ok \in BOOLEAN :
       IF ok
         THEN /\ pc' = "tr_call"
              /\ UNCHANGED <<attempt, lastError, trLog, calls, events, thrown,
                             result, stageResult, originalTranscript,
                             enhancedTranscript>>
         ELSE TranscribeAttemptFailed(Err("transcription", "blob", attempt), calls)
  /\ UNCHANGED <<opts, file, audioUrl, store, db, waits, upLog, deleteLog>>

\* what transcribeAudio can answer: an error, or a text
TranscribeAnswers ==
  {[ok |-> FALSE, text |-> NoText]} \cup
  {[ok |-> TRUE, text |-> t] : t \in TranscriptTexts}

\* const result = await transcribeAudio(file, options), the audio length probe,
\* and on success the return of transcribeWithRetry into process
TranscribeCall ==
  /\ pc = "tr_call"
  /\ \E out \in TranscribeAnswers :
       LET cs == [calls EXCEPT !.transcribe = @ + 1] IN
       IF out.ok
         THEN /\ trLog' = Append(trLog, NoError)
              /\ UNCHANGED <<attempt, lastError>>
              /\ AfterTranscription(
                   [returned |-> TRUE, text |-> out.text, error |-> NoError], cs)
         ELSE TranscribeAttemptFailed(Err("transcription", "provider", attempt), cs)
  /\ UNCHANGED <<opts, file, audioUrl, store, db, waits, upLog, deleteLog>>

\* what enhanceTranscript can answer: an error, or a text
EnhanceAnswers ==
  {[ok |-> FALSE, text |-> NoText]} \cup
  {[ok |-> TRUE, text |-> t] : t \in EnhancedTexts}

\* const result = await enhanceTranscript(transcript, style, customPrompt), the
\* return of enhance, and process up to the call of createRecording
EnhanceCall ==
  /\ pc = "enh_call"
  /\ calls' = [calls EXCEPT !.complete = @ + 1]
  /\ \E out \in EnhanceAnswers :
       /\ stageResult' = [stageResult EXCEPT !.enhancement = EnhanceReturn(out)]
       /\ enhancedTranscript' = FinalTranscript(originalTranscript, EnhanceReturn(out))
  /\ events' = events \o EnhanceDoneEvents
  /\ pc' = "save"
  /\ UNCHANGED <<opts, file, attempt, lastError, audioUrl, originalTranscript,
                 thrown, result, store, db, waits, upLog, trLog, deleteLog>>

(***************************************************************************)
(* Stage 4 and the cleanup of the catch block                              *)
(***************************************************************************)
\* the row process hands to createRecording
RecordingRow ==
  [user_id |-> opts.userId, audio_url |-> audioUrl,
   original_transcript |-> originalTranscript,
   enhanced_transcript |-> enhancedTranscript, style |-> opts.style,
   word_count |-> WordCount(enhancedTranscript),
   character_count |-> CharacterCount(enhancedTranscript)]

\* the callbacks of process after createRecording returned
SaveDoneEvents ==
  <<ProgressEvent("saving", 100),
    StageEvent("saving"),
    ProgressEvent("complete", 100),
    StageEvent("complete")>>

\* const recordingData = await createRecording({...}): it returns the row or throws
SaveInsert ==
  /\ pc = "save"
  /\ calls' = [calls EXCEPT !.insert = @ + 1]
  /\ \E ok \in BOOLEAN :
       IF ok
         THEN /\ db' = db \cup {RecordingRow}
              /\ stageResult' = [stageResult EXCEPT !.persistence =
                   [returned |-> TRUE, id |-> "row_1"]]
              /\ events' = events \o SaveDoneEvents
              /\ result' = SuccessResult("row_1")
              /\ pc' = "done"
              /\ UNCHANGED thrown
         ELSE /\ Catch(Err("persistence", "insert", 0), events)
              /\ UNCHANGED <<db, stageResult>>
  /\ UNCHANGED <<opts, file, attempt, lastError, audioUrl, originalTranscript,
                 enhancedTranscript, store, waits, upLog, trLog, deleteLog>>

\* what storage.remove([filePath]) can answer: "lost" removes the object and
\* reports an error to the client
DeleteOutcomes == {"ok", "err", "lost"}

\* the effect of remove([path]) on the bucket
DeleteApply(objects, path, outcome) ==
  IF outcome \in {"ok", "lost"} THEN objects \ {path} ELSE objects

\* await AudioUtils.deleteFromSupabase(filePath), then the error return of process
Cleanup ==
  /\ pc = "cleanup"
  /\ calls' = [calls EXCEPT !.delete = @ + 1]
  /\ LET path == CleanupPath(opts.userId, audioUrl) IN
     \E outcome \in DeleteOutcomes :
       /\ store' = DeleteApply(store, path, outcome)
       /\ deleteLog' = Append(deleteLog, [path |-> path, outcome |-> outcome])
  /\ result' = ErrorResult(thrown)
  /\ pc' = "done"
  /\ UNCHANGED <<opts, file, attempt, lastError, audioUrl, originalTranscript,
                 enhancedTranscript, thrown, db, events, waits, upLog, trLog,
                 stageResult>>

\* one run of process; the offline queue is not involved
Next ==
  \/ Start /\ UNCHANGED <<queueVars, other>>
  \/ UploadBackoff /\ UNCHANGED <<queueVars, other>>
  \/ UploadGetInfo /\ UNCHANGED <<queueVars, other>>
  \/ UploadBlob /\ UNCHANGED <<queueVars, other>>
  \/ UploadSend /\ UNCHANGED <<queueVars, other>>
  \/ TranscribeBackoff /\ UNCHANGED <<queueVars, other>>
  \/ TranscribeGetInfo /\ UNCHANGED <<queueVars, other>>
  \/ TranscribeBlob /\ UNCHANGED <<queueVars, other>>
  \/ TranscribeCall /\ UNCHANGED <<queueVars, other>>
  \/ EnhanceCall /\ UNCHANGED <<queueVars, other>>
  \/ SaveInsert /\ UNCHANGED <<queueVars, other>>
  \/ Cleanup /\ UNCHANGED <<queueVars, other>>

Spec == Init /\ [][Next]_vars

(***************************************************************************)
(* Two runs of process for two recordings                                  *)
(***************************************************************************)
\* the locals of the run that is executing
Frame ==
  [opts |-> opts, file |-> file, pc |-> pc, attempt |-> attempt,
   lastError |-> lastError, audioUrl |-> audioUrl,
   originalTranscript |-> originalTranscript,
   enhancedTranscript |-> enhancedTranscript, thrown |-> thrown,
   result |-> result, events |-> events, waits |-> waits, upLog |-> upLog,
   trLog |-> trLog, stageResult |-> stageResult, calls |-> calls,
   deleteLog |-> deleteLog]

\* the run that is executing is suspended at its await and the other run goes
\* on; the bucket and the table are shared
Switch ==
  /\ other.pc # "done"
  /\ other' = Frame
  /\ opts' = other.opts
  /\ file' = other.file
  /\ pc' = other.pc
  /\ attempt' = other.attempt
  /\ lastError' = other.lastError
  /\ audioUrl' = other.audioUrl
  /\ originalTranscript' = other.originalTranscript
  /\ enhancedTranscript' = other.enhancedTranscript
  /\ thrown' = other.thrown
  /\ result' = other.result
  /\ events' = other.events
  /\ waits' = other.waits
  /\ upLog' = other.upLog
  /\ trLog' = other.trLog
  /\ stageResult' = other.stageResult
  /\ calls' = other.calls
  /\ deleteLog' = other.deleteLog
  /\ UNCHANGED <<store, db, queueVars>>

\* the providers of the two-run behaviours: the local file can be read, the
\* transcription provider answers at the first attempt with "hi" or with an
\* empty text, the generation provider answers "Ok." or fails; the bucket and
\* the table answer in every way they can
TwoRunEnvironment ==
  /\ \A k \in 1..Len(upLog') :
       upLog'[k] = NoError \/ upLog'[k].kind \in {"provider", "exists"}
  /\ \A k \in 1..Len(trLog') : trLog'[k] = NoError
  /\ stageResult'.transcription.text \in {NoText, <<"h", "i">>}
  /\ stageResult'.enhancement.enhanced \in {NoText, <<"O", "k", ".">>}

TwoRunStart ==
  /\ Init
  /\ opts = [userId |-> UserId, recordingId |-> RecordingId, style |-> "note",
             isPremium |-> FALSE, customPrompt |-> ""]
  /\ file = [exists |-> TRUE, size |-> 1048576]

TwoRunNext ==
  \/ Next /\ TwoRunEnvironment
  \/ Switch

TwoRunSpec == TwoRunStart /\ [][TwoRunNext]_vars

(***************************************************************************)
(* A caller whose callbacks throw                                          *)
(***************************************************************************)
\* the promise of process rejected: the catch block itself threw
RejectedResult == [NoResult EXCEPT !.status = "rejected"]

\* createRecording returned the row, and then the k-th of the four callbacks
\* that follow it threw.  The throw is caught by the catch block of process,
\* whose own two callbacks run outside any try: when one of them throws too,
\* process rejects without reaching the cleanup
SaveInsertCallbackThrows ==
  /\ pc = "save"
  /\ calls' = [calls EXCEPT !.insert = @ + 1]
  /\ db' = db \cup {RecordingRow}
  /\ stageResult' = [stageResult EXCEPT !.persistence =
       [returned |-> TRUE, id |-> "row_1"]]
  /\ \E k \in 1..Len(SaveDoneEvents) : \E again \in {"none", "progress", "stage"} :
       LET evs == events \o SubSeq(SaveDoneEvents, 1, k)
           err == Err("callback", SaveDoneEvents[k].stage, 0)
       IN CASE again = "none" -> Catch(err, evs)
            [] again = "progress" ->
                 /\ events' = Append(evs, ProgressEvent("error", 0))
                 /\ thrown' = err
                 /\ pc' = "done"
                 /\ result' = RejectedResult
            [] again = "stage" ->
                 /\ events' = evs \o <<ProgressEvent("error", 0), StageEvent("error")>>
                 /\ thrown' = err
                 /\ pc' = "done"
                 /\ result' = RejectedResult
  /\ UNCHANGED <<opts, file, attempt, lastError, audioUrl, originalTranscript,
                 enhancedTranscript, store, waits, upLog, trLog, deleteLog>>

CallbackNext ==
  \/ Next
  \/ SaveInsertCallbackThrows /\ UNCHANGED <<queueVars, other>>

CallbackSpec == Init /\ [][CallbackNext]_vars

(***************************************************************************)
(* OfflineQueue                                                            *)
(***************************************************************************)
\* if (op.retries < 3)
RetryCeiling == 3

\* operations enqueued in one behaviour
MaxOps == 3

\* connectivity events delivered in one behaviour
MaxNetEvents == 6

\* state.isConnected: true, false, null
Connectivity == {"connected", "disconnected", "unknown"}

\* this.isOnline = state.isConnected ?? false
OnlineOf(c) == c = "connected"

\* a listener that replays on every event that reports a connection
ShouldSync_WheneverOnline(wasOffline, online) == online

\* if (wasOffline && this.isOnline) this.syncQueue()
ShouldSync(wasOffline, online) == wasOffline /\ online

\* a syncQueue without its guard
SyncGuard_Off(syncing) == FALSE

\* if (this.isSyncing) return
SyncGuard(syncing) == syncing

\* a ceiling that is one too high
KeepAfterFailure_Inclusive(retries) == retries <= RetryCeiling

\* op.retries++; if (op.retries < 3) remaining.push(op): retries is the new count
KeepAfterFailure(retries) == retries < RetryCeiling

\* a pass that collects what it keeps at the front
KeepOp_AtFront(remaining, op) == <<op>> \o remaining

\* remaining.push(op)
KeepOp(remaining, op) == Append(remaining, op)

\* an enqueue that puts the new operation at the head of the queue
EnqueueOp_AtFront(queue, op) == <<op>> \o queue

\* queue.push(queuedOp)
EnqueueOp(queue, op) == Append(queue, op)

\* the QueuedOperation built by enqueue; n stands for its id and its timestamp
QueuedOp(n) == [id |-> n, retries |-> 0]

\* what a pass has in remaining after executeOperation(op) settled
AfterExec(remaining, op, ok) ==
  IF ok THEN remaining
  ELSE IF KeepAfterFailure(op.retries + 1)
         THEN KeepOp(remaining, [op EXCEPT !.retries = @ + 1])
         ELSE remaining

\* syncQueue up to its first await: nothing when a pass is in progress; else
\* it takes the stored queue and, when that is empty, completes at once
SyncQueue ==
  /\ syncCalls' = syncCalls + 1
  /\ IF SyncGuard(isSyncing)
       THEN UNCHANGED <<persisted, isSyncing, passes, passesStarted>>
       ELSE /\ passesStarted' = passesStarted + 1
            /\ IF persisted = <<>>
                 THEN /\ persisted' = <<>>
                      /\ isSyncing' = FALSE
                      /\ UNCHANGED passes
                 ELSE /\ isSyncing' = TRUE
                      /\ passes' = Append(passes,
                           [n |-> passesStarted + 1, queue |-> persisted,
                            i |-> 1, remaining |-> <<>>])
                      /\ UNCHANGED persisted

\* the listener registered by initialize receives a connectivity event
NetEvent ==
  /\ netEvents < MaxNetEvents
  /\ netEvents' = netEvents + 1
  /\ \E c \in Connectivity :
       /\ isOnline' = OnlineOf(c)
       /\ IF ShouldSync(~isOnline, OnlineOf(c))
            THEN SyncQueue
            ELSE UNCHANGED <<persisted, isSyncing, passes, passesStarted, syncCalls>>
  /\ UNCHANGED <<nextOp, execLog>>

\* enqueue(operation): read the stored queue, push, store
Enqueue ==
  /\ nextOp <= MaxOps
  /\ persisted' = EnqueueOp(persisted, QueuedOp(nextOp))
  /\ nextOp' = nextOp + 1
  /\ UNCHANGED <<isOnline, isSyncing, passes, passesStarted, netEvents,
                 syncCalls, execLog>>

\* the passes without pass k
WithoutPass(k) == SubSeq(passes, 1, k - 1) \o SubSeq(passes, k + 1, Len(passes))

\* await this.executeOperation(op) settles in a pass: the catch block, then the
\* next iteration or, after the last one, the store of remaining and the
\* release of isSyncing
ExecSettled ==
  \E k \in 1..Len(passes) : \E ok \in BOOLEAN :
    LET p == passes[k]
        op == p.queue[p.i]
        rem == AfterExec(p.remaining, op, ok)
    IN /\ execLog' = Append(execLog, [pass |-> p.n, id |-> op.id, ok |-> ok])
       /\ IF p.i < Len(p.queue)
            THEN /\ passes' = [passes EXCEPT ![k] =
                      [p EXCEPT !.i = @ + 1, !.remaining = rem]]
                 /\ UNCHANGED <<persisted, isSyncing>>
            ELSE /\ passes' = WithoutPass(k)
                 /\ persisted' = rem
                 /\ isSyncing' = FALSE
       /\ UNCHANGED <<isOnline, passesStarted, nextOp, netEvents, syncCalls>>

\* the application with its offline queue; no recording is being processed
QueueStart ==
  /\ Init
  /\ opts = [userId |-> UserId, recordingId |-> RecordingId, style |-> "note",
             isPremium |-> FALSE, customPrompt |-> ""]
  /\ file = [exists |-> TRUE, size |-> 1048576]

QueueNext ==
  \/ NetEvent /\ UNCHANGED <<pipelineVars, boot>>
  \/ Enqueue /\ UNCHANGED <<pipelineVars, boot>>
  \/ ExecSettled /\ UNCHANGED <<pipelineVars, boot>>

QueueSpec == QueueStart /\ [][QueueNext]_vars

(***************************************************************************)
(* OfflineQueue with process restarts and storage errors                   *)
(***************************************************************************)
\* process restarts in one behaviour
MaxRestarts == 2

\* the process stops and starts again: the statics are initialised anew, the
\* suspended pass is gone, the MMKV store keeps the queue, and initialize
\* registers the listener
Restart ==
  /\ boot.n < MaxRestarts
  /\ isOnline' = TRUE
  /\ isSyncing' = FALSE
  /\ passes' = <<>>
  /\ boot' = [n |-> boot.n + 1, netEvents |-> netEvents,
              passesStarted |-> passesStarted, syncCalls |-> syncCalls,
              stored |-> persisted]
  /\ UNCHANGED <<persisted, passesStarted, nextOp, netEvents, syncCalls, execLog>>

\* the listener calls syncQueue and getQueue throws (storage.getString or
\* JSON.parse): the promise of syncQueue rejects after isSyncing was set
NetEventReadThrows ==
  /\ netEvents < MaxNetEvents
  /\ netEvents' = netEvents + 1
  /\ \E c \in Connectivity :
       /\ ShouldSync(~isOnline, OnlineOf(c))
       /\ isOnline' = OnlineOf(c)
  /\ ~SyncGuard(isSyncing)
  /\ syncCalls' = syncCalls + 1
  /\ passesStarted' = passesStarted + 1
  /\ isSyncing' = TRUE
  /\ UNCHANGED <<persisted, passes, nextOp, execLog>>

\* the last executeOperation of a pass settles and storage.set throws: the
\* promise of syncQueue rejects before isSyncing is reset
ExecSettledWriteThrows ==
  \E k \in 1..Len(passes) : \E ok \in BOOLEAN :
    LET p == passes[k]
        op == p.queue[p.i]
    IN /\ p.i = Len(p.queue)
       /\ execLog' = Append(execLog, [pass |-> p.n, id |-> op.id, ok |-> ok])
       /\ passes' = WithoutPass(k)
       /\ UNCHANGED <<persisted, isSyncing, isOnline, passesStarted, nextOp,
                      netEvents, syncCalls>>

NetEventStep == NetEvent /\ UNCHANGED <<pipelineVars, boot>>

ExecSettledStep == ExecSettled /\ UNCHANGED <<pipelineVars, boot>>

QueueFaultNext ==
  \/ NetEventStep
  \/ Enqueue /\ UNCHANGED <<pipelineVars, boot>>
  \/ ExecSettledStep
  \/ Restart /\ UNCHANGED pipelineVars
  \/ NetEventReadThrows /\ UNCHANGED <<pipelineVars, boot>>
  \/ ExecSettledWriteThrows /\ UNCHANGED <<pipelineVars, boot>>

\* events are delivered to the listener and pending promises settle
QueueFaultSpec ==
  /\ QueueStart
  /\ [][QueueFaultNext]_vars
  /\ WF_vars(NetEventStep)
  /\ WF_vars(ExecSettledStep)

(***************************************************************************)
(* Properties                                                              *)
(***************************************************************************)
Returned == pc = "done"

ReturnedError == Returned /\ result.status = "error"

ReturnedOk == Returned /\ result.status = "ok"

\* uploadWithRetry returned a url and no error
UploadSucceeded ==
  stageResult.upload.returned /\ stageResult.upload.error = NoError

FatalStages == {"transcription", "persistence"}

\* the path the run uploads to
JobPath == UploadPath(opts.userId, opts.recordingId)

\* the objects of the bucket under {userId}/{recordingId}
JobObjects ==
  {p \in store : Len(p) = 2 /\ p[1] = opts.userId /\ p[2][1] = opts.recordingId}

ProgressValues ==
  LET ps == SelectSeq(events, LAMBDA e : e.cb = "progress")
  IN [i \in 1..Len(ps) |-> ps[i].pct]

WaitsOf(stage) ==
  LET ws == SelectSeq(waits, LAMBDA w : w.stage = stage)
  IN [i \in 1..Len(ws) |-> ws[i].ms]

\* C1: when Upload has succeeded (audioUrl is set) and the run ends in failure
\* of Transcription (an error or an empty text) or of the Persistence insert, a
\* delete of the uploaded object has been attempted by the time process has
\* returned its error result.
C1_DeleteAttemptedBeforeErrorReturn ==
  (/\ result.status = "error"
   /\ audioUrl # NoUrl
   /\ result.error.stage \in FatalStages)
    => /\ calls.delete >= 1
       /\ \E i \in 1..Len(deleteLog) : deleteLog[i].path = JobPath

C1_Witness ==
  /\ ReturnedError
  /\ audioUrl # NoUrl
  /\ result.error.stage = "persistence"
  /\ calls.delete >= 1

\* C2: a run in which Upload succeeds and Transcription or Persistence then
\* fails issues exactly one delete-object call, on the path the run uploaded
\* to, {userId}/{recordingId}.m4a; a run that succeeds, or that fails in Upload,
\* issues none; and no run ever issues more than one.
C2_ExactlyOneCompensation ==
  /\ calls.delete <= 1
  /\ Len(deleteLog) = calls.delete
  /\ (ReturnedError /\ UploadSucceeded /\ result.error.stage \in FatalStages)
       => /\ calls.delete = 1
          /\ deleteLog[1].path = JobPath
          /\ JobPath = <<opts.userId, <<opts.recordingId, "m4a">>>>
  /\ ReturnedOk => calls.delete = 0
  /\ (ReturnedError /\ ~UploadSucceeded)
       => /\ result.error.stage = "upload"
          /\ calls.delete = 0

C2_Witness ==
  /\ ReturnedError
  /\ UploadSucceeded
  /\ result.error.stage = "transcription"
  /\ calls.delete = 1
  /\ deleteLog[1].path = JobPath

\* C3 as stated: for every style and every fatal stage, once process has
\* returned its error result the bucket holds no object under
\* {userId}/{recordingId}.
C3_NoOrphanAfterFatalFailure ==
  (ReturnedError /\ result.error.stage \in FatalStages) => JobObjects = {}

\* C3 as amended: for every style and every fatal stage, once process has
\* returned its error result exactly one delete of the job's object has been
\* issued, and the bucket holds no object under {userId}/{recordingId} unless
\* that delete failed at the store (then the object is still there).
C3_NoOrphanUnlessDeleteFailed ==
  (ReturnedError /\ result.error.stage \in FatalStages)
    => /\ Len(deleteLog) = 1
       /\ deleteLog[1].outcome # "err" => JobObjects = {}
       /\ deleteLog[1].outcome = "err" => JobObjects = {JobPath}

C3_Witness ==
  /\ ReturnedError
  /\ result.error.stage = "persistence"
  /\ opts.style = "summary"
  /\ Len(deleteLog) = 1
  /\ deleteLog[1].outcome = "ok"
  /\ JobObjects = {}

\* enhance returned an error: a provider error, a validation error or an empty output
EnhancementFailed ==
  stageResult.enhancement.returned /\ stageResult.enhancement.error # NoError

\* C4 as stated: when Upload and Transcription succeed and the Enhancement stage
\* fails, process proceeds to Persistence and returns a result without error
\* whose enhancedTranscript equals originalTranscript, and no compensating
\* delete is issued.
C4_EnhancementFailureStillSucceeds ==
  (Returned /\ EnhancementFailed)
    => /\ calls.insert = 1
       /\ result.status = "ok"
       /\ result.enhancedTranscript = result.originalTranscript
       /\ calls.delete = 0

\* C4 as amended: when Upload and Transcription succeed and the Enhancement stage
\* fails, process proceeds to Persistence with enhancedTranscript equal to the
\* (non-empty) originalTranscript; unless the Persistence insert itself fails it
\* returns a result without error whose enhancedTranscript equals
\* originalTranscript and issues no compensating delete, and the only error it
\* can return is that of the failed insert.
C4_EnhancementFailureDegrades ==
  EnhancementFailed
    => /\ pc \in {"save", "cleanup", "done"}
       /\ enhancedTranscript = originalTranscript
       /\ ~IsBlank(originalTranscript)
       /\ pc = "save" => calls.insert = 0 /\ calls.delete = 0
       /\ pc \in {"cleanup", "done"} => calls.insert = 1
       /\ (Returned /\ db # {})
            => /\ result.status = "ok"
               /\ result.enhancedTranscript = result.originalTranscript
               /\ result.originalTranscript = stageResult.transcription.text
               /\ calls.delete = 0
       /\ result.status = "error" => result.error = Err("persistence", "insert", 0)

C4_Witness ==
  /\ ReturnedOk
  /\ stageResult.enhancement.error.kind = "provider"
  /\ result.enhancedTranscript = result.originalTranscript
  /\ calls.delete = 0

\* C5 as stated: a run with style = 'custom' and isPremium = false fails
\* validation before any provider call: it returns an error and issues no
\* upload, no transcribe and no generation call.
C5_PremiumGateBeforeProviders ==
  (opts.style = "custom" /\ ~opts.isPremium)
    => /\ calls.upload = 0
       /\ calls.transcribe = 0
       /\ calls.complete = 0
       /\ Returned => result.status = "error"

\* C6: in a successful run, also one whose Upload needed retries, the percentages
\* passed to onProgress never decrease and the last one is 100.
C6_ProgressMonotone ==
  ReturnedOk
    => LET ps == ProgressValues
       IN /\ Len(ps) > 0
          /\ \A i \in 1..(Len(ps) - 1) : ps[i] <= ps[i + 1]
          /\ ps[Len(ps)] = 100

C6_Witness ==
  /\ ReturnedOk
  /\ Len(upLog) = 3
  /\ ProgressValues[1] = 0
  /\ ProgressValues[Len(ProgressValues)] = 100

\* the sleeps a retry loop makes before attempts 1 and 2, in milliseconds
ExpectedWaits == <<2000, 4000>>

\* the retry policy on a log of attempt outcomes and the sleeps made so far:
\* at most 3 attempts, none after a success, a sleep of 2^attempt seconds before
\* attempts 1 and 2 and none before attempt 0; started: the attempts begun so far
RetryPolicyKept(log, ws, started) ==
  /\ Len(log) <= 3
  /\ \A i \in 1..Len(log) :
       \/ log[i] = NoError /\ i = Len(log)
       \/ log[i] # NoError /\ log[i].attempt = i - 1
  /\ Len(ws) <= 2
  /\ ws = SubSeq(ExpectedWaits, 1, Len(ws))
  /\ started <= 3
  /\ Len(ws) = (IF started = 0 THEN 0 ELSE started - 1)

\* what a retry loop returned: success at the first successful attempt, and after
\* 3 failures the error of the last attempt
RetryReturnKept(log, res) ==
  /\ Len(log) >= 1
  /\ res.error = log[Len(log)]
  /\ res.error # NoError => Len(log) = 3 /\ res.error.attempt = 2

\* the calls of uploadToSupabase made so far, the one in progress included
UploadAttemptsStarted ==
  Len(upLog) + (IF pc \in {"up_info", "up_blob", "up_send"} THEN 1 ELSE 0)

\* C7: uploadWithRetry makes at most 3 upload attempts, stops at the first that
\* succeeds, sleeps 2000 ms before attempt 1 and 4000 ms before attempt 2 and not
\* before attempt 0, and after 3 failures returns the error of the last attempt;
\* two failures followed by a success give success after 3 attempts and the
\* sleeps 2000 ms, 4000 ms.
C7_UploadRetryPolicy ==
  /\ RetryPolicyKept(upLog, WaitsOf("upload"), UploadAttemptsStarted)
  /\ calls.upload <= 3
  /\ pc \in {"start", "up_wait", "up_info", "up_blob", "up_send"}
       <=> ~stageResult.upload.returned
  /\ stageResult.upload.returned => RetryReturnKept(upLog, stageResult.upload)
  /\ (/\ stageResult.upload.returned
      /\ Len(upLog) = 3
      /\ upLog[3] = NoError)
       => /\ UploadSucceeded
          /\ stageResult.upload.url # NoUrl
          /\ WaitsOf("upload") = <<2000, 4000>>

C7_Witness ==
  /\ UploadSucceeded
  /\ Len(upLog) = 3
  /\ upLog[1].kind = "provider"
  /\ upLog[2].kind = "provider"
  /\ calls.upload = 3
  /\ WaitsOf("upload") = <<2000, 4000>>

\* transcribeWithRetry returned an error
TranscriptionExhausted ==
  stageResult.transcription.returned /\ stageResult.transcription.error # NoError

\* the calls of transcribe made so far, the one in progress included
TranscribeAttemptsStarted ==
  Len(trLog) + (IF pc \in {"tr_info", "tr_blob", "tr_call"} THEN 1 ELSE 0)

\* C8: transcribeWithRetry keeps the policy of Upload (at most 3 attempts, a
\* sleep of 2000 ms before attempt 1 and 4000 ms before attempt 2, stop at the
\* first success); when all 3 attempts fail the job is fatal: process returns an
\* error and calls neither Enhancement nor Persistence.
C8_TranscriptionRetryAndFatal ==
  /\ RetryPolicyKept(trLog, WaitsOf("transcription"), TranscribeAttemptsStarted)
  /\ calls.transcribe <= 3
  /\ stageResult.transcription.returned
       => RetryReturnKept(trLog, stageResult.transcription)
  /\ TranscriptionExhausted
       => /\ pc \in {"cleanup", "done"}
          /\ thrown = stageResult.transcription.error
          /\ calls.enhance = 0
          /\ calls.complete = 0
          /\ calls.insert = 0
          /\ db = {}
          /\ Returned => result.status = "error" /\ result.error = trLog[3]

C8_Witness ==
  /\ ReturnedError
  /\ TranscriptionExhausted
  /\ Len(trLog) = 3
  /\ calls.transcribe = 3
  /\ WaitsOf("transcription") = <<2000, 4000>>
  /\ calls.insert = 0

\* C9 as stated: when the local audio file is missing or larger than 50 MiB the
\* pipeline fails after a single validation attempt with no backoff sleep, and
\* makes no storage, transcription, generation or database call and no
\* compensating delete.
C9_ValidationFailsWithoutRetry ==
  (~file.exists \/ file.size > UploadMaxSize)
    => /\ Len(upLog) <= 1
       /\ waits = <<>>
       /\ calls = NoCalls
       /\ Returned => result.status = "error"

\* the transcription provider answered with an empty or whitespace-only text
ProviderReturnedBlank ==
  /\ stageResult.transcription.returned
  /\ stageResult.transcription.error = NoError
  /\ \A i \in 1..Len(stageResult.transcription.text) :
       stageResult.transcription.text[i] \in {" ", "\n"}

\* C10: when the transcription provider returns an empty or whitespace-only
\* text, process returns a transcription error, makes no Persistence insert and
\* no Enhancement call, and issues exactly one compensating delete.
C10_EmptyTranscriptIsFatal ==
  (Returned /\ ProviderReturnedBlank)
    => /\ result.status = "error"
       /\ result.error = Err("transcription", "empty", 0)
       /\ calls.insert = 0
       /\ db = {}
       /\ calls.enhance = 0
       /\ calls.complete = 0
       /\ calls.delete = 1
       /\ deleteLog[1].path = JobPath

C10_Witness ==
  /\ ReturnedError
  /\ stageResult.transcription.text = <<" ", "\n">>
  /\ stageResult.transcription.error = NoError
  /\ result.error.kind = "empty"
  /\ calls.delete = 1

(***************************************************************************)
(* What is persisted and what is returned                                  *)
(***************************************************************************)
\* the text has a character that is not whitespace
HasContent(t) == \E i \in 1..Len(t) : t[i] \notin {" ", "\n"}

\* process has reached the call of createRecording
InsertReached == pc = "save" \/ calls.insert > 0

\* C11: whenever process reaches the Persistence insert, the enhanced_transcript
\* it writes is non-empty: it is the non-empty output of Enhancement or, on any
\* Enhancement failure (empty output included), the non-empty original
\* transcript.
C11_PersistedTranscriptNonEmpty ==
  /\ InsertReached =>
       /\ RecordingRow.enhanced_transcript # NoText
       /\ HasContent(RecordingRow.enhanced_transcript)
       /\ stageResult.enhancement.returned
       /\ IF stageResult.enhancement.error = NoError
            THEN /\ RecordingRow.enhanced_transcript = stageResult.enhancement.enhanced
                 /\ HasContent(stageResult.enhancement.enhanced)
            ELSE /\ RecordingRow.enhanced_transcript = originalTranscript
                 /\ HasContent(originalTranscript)
  /\ \A row \in db : HasContent(row.enhanced_transcript)

C11_Witness ==
  /\ db # {}
  /\ stageResult.enhancement.error = Err("enhancement", "empty_output", 0)
  /\ \A row \in db : row.enhanced_transcript = originalTranscript

\* the number of maximal runs of non-whitespace characters of the text
Tokens(t) ==
  Cardinality({ i \in 1..Len(t) :
                  /\ t[i] \notin {" ", "\n"}
                  /\ (i = 1 \/ t[i - 1] \in {" ", "\n"}) })

\* C12: the wordCount and characterCount persisted and returned by process are
\* the number of whitespace-delimited tokens and the raw length of the final
\* transcript, taken after the fallback (on fallback they are the counts of the
\* original transcript); for "hello world foo" they are 3 and 15.
C12_CountsOfFinalTranscript ==
  /\ ReturnedOk =>
       /\ result.wordCount = Tokens(result.enhancedTranscript)
       /\ result.characterCount = Len(result.enhancedTranscript)
       /\ EnhancementFailed =>
            /\ result.wordCount = Tokens(originalTranscript)
            /\ result.characterCount = Len(originalTranscript)
       /\ result.enhancedTranscript = HelloWorldFoo =>
            /\ result.wordCount = 3
            /\ result.characterCount = 15
  /\ \A row \in db :
       /\ row.word_count = Tokens(row.enhanced_transcript)
       /\ row.character_count = Len(row.enhanced_transcript)
       /\ ReturnedOk =>
            /\ row.word_count = result.wordCount
            /\ row.character_count = result.characterCount

C12_Witness ==
  /\ ReturnedOk
  /\ EnhancementFailed
  /\ result.enhancedTranscript = HelloWorldFoo
  /\ result.wordCount = 3
  /\ \E row \in db : row.character_count = 15

\* the result has a degraded-enhancement flag, and it is set
DegradedFlagSet == "degraded" \in DOMAIN result /\ result.degraded

\* C13: the successful result of process carries a degraded-enhancement flag
\* that is set when Enhancement failed and not set when it succeeded.
C13_DegradedFlagOnFallback ==
  ReturnedOk => (DegradedFlagSet <=> EnhancementFailed)

\* the three record fields of the result that the claim names are all populated
RecordPopulated ==
  /\ result.audioUrl # NoUrl
  /\ result.originalTranscript # NoText
  /\ result.enhancedTranscript # NoText

\* none of them is populated
RecordBlank ==
  /\ result.audioUrl = NoUrl
  /\ result.originalTranscript = NoText
  /\ result.enhancedTranscript = NoText

UploadPcs == {"up_wait", "up_info", "up_blob", "up_send"}

TranscribePcs == {"tr_wait", "tr_info", "tr_blob", "tr_call"}

\* the stage whose call process is suspended in
StageInFlight ==
  IF pc \in UploadPcs THEN {"upload"}
  ELSE IF pc \in TranscribePcs THEN {"transcription"}
  ELSE IF pc = "enh_call" THEN {"enhancement"}
  ELSE IF pc = "save" THEN {"persistence"}
  ELSE {}

\* the stage has been called
StageCalled(s) ==
  CASE s = "upload" -> pc # "start"
    [] s = "transcription" -> pc \in TranscribePcs \/ stageResult.transcription.returned
    [] s = "enhancement" -> calls.enhance > 0
    [] s = "persistence" -> InsertReached

\* the stage was called and has returned or thrown
StageOver(s) == StageCalled(s) /\ s \notin StageInFlight

\* C19: the stages of a job run in the order Upload, Transcription, Enhancement,
\* Persistence without overlap: the transcription call is made only after Upload
\* returned success, the generation call only after Transcription returned a
\* non-empty text, the insert only after Enhancement returned, and while one
\* stage call is pending no other stage is.
C19_StagesInOrder ==
  /\ StageCalled("transcription") =>
       /\ StageOver("upload")
       /\ stageResult.upload.returned
       /\ stageResult.upload.error = NoError
       /\ stageResult.upload.url # NoUrl
  /\ (StageCalled("enhancement") \/ calls.complete > 0) =>
       /\ StageOver("transcription")
       /\ stageResult.transcription.returned
       /\ stageResult.transcription.error = NoError
       /\ HasContent(stageResult.transcription.text)
  /\ StageCalled("persistence") =>
       /\ StageOver("enhancement")
       /\ stageResult.enhancement.returned
  /\ Cardinality(StageInFlight) <= 1
  /\ "upload" \in StageInFlight =>
       calls.transcribe = 0 /\ calls.enhance = 0 /\ calls.insert = 0
  /\ "transcription" \in StageInFlight => calls.enhance = 0 /\ calls.insert = 0
  /\ "enhancement" \in StageInFlight => calls.insert = 0
  /\ calls.upload <= UploadMaxRetries
  /\ calls.insert <= 1

C19_Witness ==
  /\ pc = "save"
  /\ calls.upload > 0
  /\ calls.transcribe > 0
  /\ calls.complete = 1
  /\ calls.insert = 0

\* the stage is over and has failed
StageHasFailed(s) ==
  CASE s = "upload" ->
         StageOver(s) /\ upLog # <<>> /\ upLog[Len(upLog)] # NoError
    [] s = "transcription" ->
         StageOver(s) /\ trLog # <<>> /\ trLog[Len(trLog)] # NoError
    [] s = "enhancement" ->
         StageOver(s) /\ (calls.complete = 0 \/ ~HasContent(stageResult.enhancement.enhanced))
    [] s = "persistence" -> StageOver(s) /\ db = {}

\* the call of the stage returned to process, with an error value
ReturnedAnError(s) ==
  /\ stageResult[s].returned
  /\ "error" \in DOMAIN stageResult[s]
  /\ stageResult[s].error # NoError
  /\ stageResult[s].error.stage = s

\* C20 as stated: every stage reports its failure as a returned error value.
C20_EveryStageReturnsItsError ==
  \A s \in {"upload", "transcription", "enhancement", "persistence"} :
    StageHasFailed(s) => ReturnedAnError(s)

\* C20: Upload, Transcription and Enhancement report failure as a returned error
\* value; Persistence reports it by throwing: createRecording does not return,
\* and the catch block of process turns the exception into the error result.
C20_PersistenceThrowsOthersReturn ==
  /\ \A s \in {"upload", "transcription", "enhancement"} :
       StageHasFailed(s) => ReturnedAnError(s)
  /\ StageHasFailed("persistence") =>
       /\ ~stageResult.persistence.returned
       /\ thrown = Err("persistence", "insert", 0)
       /\ Returned => result.error = thrown
  /\ (thrown # NoError /\ thrown.stage \in {"upload", "transcription"}
        /\ thrown.kind # "empty") =>
       stageResult[thrown.stage].error = thrown
  /\ thrown.stage # "enhancement"

C20_Witness ==
  /\ Returned
  /\ StageHasFailed("persistence")
  /\ ReturnedAnError("enhancement")
  /\ ~stageResult.persistence.returned
  /\ result.error.stage = "persistence"

(***************************************************************************)
(* The offline queue                                                       *)
(***************************************************************************)
\* the ids of a sequence of operations, in order
Ids(q) == [k \in 1..Len(q) |-> q[k].id]

\* enqueue numbers the operations, so enqueue order is ascending order of id
InEnqueueOrder(ids) == \A j, k \in 1..Len(ids) : j < k => ids[j] < ids[k]

\* the settled replays of the operation that failed, and those that succeeded
Failures(id) == { k \in 1..Len(execLog) : execLog[k].id = id /\ ~execLog[k].ok }

Successes(id) == { k \in 1..Len(execLog) : execLog[k].id = id /\ execLog[k].ok }

Enqueued == 1..(nextOp - 1)

NoPassInProgress == passes = <<>>

\* C15: each failed replay of an operation adds one to its retry count, the
\* operation stays queued only while the count is below 3 and is dropped on its
\* 3rd failure; so every operation of the stored queue has a retry count in
\* 0..2, and with 3 operations enqueued whose replay always fails the queue is
\* empty after the 3rd pass.
C15_RetryCeiling ==
  /\ \A k \in 1..Len(persisted) : persisted[k].retries \in 0..2
  /\ \A id \in Enqueued : Cardinality(Failures(id)) <= 3
  /\ \A j \in 1..Len(passes) : \A k \in 1..Len(passes[j].remaining) :
       LET op == passes[j].remaining[k] IN
         /\ op.retries = Cardinality(Failures(op.id))
         /\ op.retries \in 1..2
  /\ NoPassInProgress =>
       /\ \A k \in 1..Len(persisted) :
            persisted[k].retries = Cardinality(Failures(persisted[k].id))
       /\ \A id \in Enqueued :
            Cardinality(Failures(id)) = 3 =>
              \A k \in 1..Len(persisted) : persisted[k].id # id
       /\ (/\ nextOp = 4
           /\ passesStarted = 3
           /\ Len(execLog) = 9
           /\ \A k \in 1..Len(execLog) : ~execLog[k].ok) => persisted = <<>>

C15_Witness ==
  /\ NoPassInProgress
  /\ nextOp = 4
  /\ passesStarted = 3
  /\ Len(execLog) = 9
  /\ \A id \in 1..3 : Cardinality(Failures(id)) = 3
  /\ persisted = <<>>

\* a call of syncQueue is made in this step while a pass is in progress
SyncRequestDuringPass == isSyncing /\ syncCalls' = syncCalls + 1

\* C16: at most one pass of syncQueue is in progress at any time, and a call of
\* syncQueue made while a pass is in progress does nothing: it starts no pass,
\* executes no operation and does not write the stored queue.
C16_ReplayNotReentrant ==
  /\ [](Len(passes) <= 1 /\ (isSyncing <=> Len(passes) = 1))
  /\ [][SyncRequestDuringPass =>
          /\ passes' = passes
          /\ passesStarted' = passesStarted
          /\ execLog' = execLog
          /\ persisted' = persisted
          /\ isSyncing']_vars

C16_Witness ==
  /\ isSyncing
  /\ Len(passes) = 1
  /\ syncCalls = 2
  /\ passesStarted = 1
  /\ execLog = <<>>

\* the operations pass n has executed, in the order it executed them
RECURSIVE ExecutedBy(_, _)
ExecutedBy(n, log) ==
  IF log = <<>> THEN <<>>
  ELSE (IF Head(log).pass = n THEN <<Head(log).id>> ELSE <<>>)
         \o ExecutedBy(n, Tail(log))

\* C17: within one pass the queued operations are executed in enqueue order,
\* each at most once; an operation whose replay succeeds is removed from the
\* stored queue, and the operations kept after the pass keep their relative
\* enqueue order.
C17_ReplayInEnqueueOrder ==
  /\ \A n \in 1..passesStarted : InEnqueueOrder(ExecutedBy(n, execLog))
  /\ \A j \in 1..Len(passes) :
       /\ InEnqueueOrder(Ids(passes[j].queue))
       /\ InEnqueueOrder(Ids(passes[j].remaining))
       /\ ExecutedBy(passes[j].n, execLog) =
            SubSeq(Ids(passes[j].queue), 1, passes[j].i - 1)
  /\ InEnqueueOrder(Ids(persisted))
  /\ NoPassInProgress =>
       \A k \in 1..Len(persisted) : Successes(persisted[k].id) = {}

C17_Witness ==
  /\ NoPassInProgress
  /\ passesStarted = 1
  /\ Ids(persisted) = <<1, 3>>
  /\ Successes(2) # {}
  /\ ExecutedBy(1, execLog) = <<1, 2, 3>>

\* C18: the connectivity listener calls syncQueue exactly once for an event that
\* moves isOnline from false to true, and not at all for an event that leaves
\* it online, leaves it offline or moves it from online to offline; nothing
\* else calls syncQueue.
C18_ReplayOncePerReconnect ==
  [][/\ syncCalls' = syncCalls + (IF ~isOnline /\ isOnline' THEN 1 ELSE 0)
     /\ netEvents' = netEvents => (isOnline' = isOnline /\ syncCalls' = syncCalls)
    ]_vars

C18_Witness ==
  /\ netEvents = 5
  /\ syncCalls = 2
  /\ isOnline

(***************************************************************************)
(* Progress bands                                                          *)
(***************************************************************************)
NonTerminalStages == {"uploading", "transcribing", "enhancing", "saving"}

\* the percentages uploadToSupabase reports: 0 before and 100 after the transfer
UploadPercentages == {0, 100}

\* C21: every onProgress(stage, pct) call of process for a non-terminal stage
\* reports pct inside the band getStageProgressRange gives for the stage
\* (UPLOADING 0..25, TRANSCRIBING 25..60, ENHANCING 60..90, SAVING 90..100), an
\* upload percentage p arrives as p / 100 * 25, and COMPLETE is reported with 100.
C21_ProgressInsideStageBand ==
  \A k \in 1..Len(events) :
    LET e == events[k] IN
    e.cb = "progress" =>
      /\ e.stage \in NonTerminalStages =>
           /\ StageProgressRange(e.stage).min <= e.pct
           /\ e.pct <= StageProgressRange(e.stage).max
      /\ e.stage = "uploading" => \E p \in UploadPercentages : 100 * e.pct = p * 25
      /\ e.stage = "transcribing" => e.pct \in 25..60
      /\ e.stage = "enhancing" => e.pct \in 60..90
      /\ e.stage = "saving" => e.pct \in 90..100
      /\ e.stage = "complete" => e.pct = 100

C21_Witness ==
  /\ ReturnedOk
  /\ \E k \in 1..Len(events) : events[k] = ProgressEvent("uploading", 25)
  /\ \E k \in 1..Len(events) : events[k] = ProgressEvent("enhancing", 90)
  /\ events[Len(events) - 1] = ProgressEvent("complete", 100)

(***************************************************************************)
(* Upload failure and the object store                                     *)
(***************************************************************************)
\* process returned the error of an Upload that failed on every attempt
UploadFailedForGood ==
  /\ ReturnedError
  /\ result.error.stage = "upload"
  /\ Len(upLog) = UploadMaxRetries

\* C28: when process returns an error because Upload failed on all attempts, no
\* object exists in storage at {userId}/{recordingId}.m4a, also when an earlier
\* attempt stored the object but reported failure and the following attempts
\* were rejected because the object exists.
C28_NoObjectAfterUploadFailure ==
  UploadFailedForGood => JobPath \notin store

(***************************************************************************)
(* The record and its audio object                                         *)
(***************************************************************************)
\* the object a row of the recordings table points at
ObjectOf(row) == <<row.user_id, row.audio_url[Len(row.audio_url)]>>

\* C24: once the insert of a job has succeeded process never deletes the
\* uploaded audio object of the job: no failure after the insert, such as a
\* callback that throws at SAVING 100 or COMPLETE, leads to a compensating
\* delete that leaves a persisted record pointing at a removed object.
C24_NoDeleteAfterInsert ==
  \A row \in db :
    /\ ObjectOf(row) \in store
    /\ \A k \in 1..Len(deleteLog) : deleteLog[k].path # ObjectOf(row)

(***************************************************************************)
(* Stage events                                                            *)
(***************************************************************************)
\* the stages of the onStageComplete calls of the run, in order
RECURSIVE StagesCompleted(_)
StagesCompleted(evs) ==
  IF evs = <<>> THEN <<>>
  ELSE (IF Head(evs).cb = "stage" THEN <<Head(evs).stage>> ELSE <<>>)
         \o StagesCompleted(Tail(evs))

StageOrder == <<"uploading", "transcribing", "enhancing", "saving">>

TerminalStages == {"complete", "error"}

\* C30: every run of process emits exactly one terminal stage event,
\* onStageComplete(COMPLETE) on success or onStageComplete(ERROR) on failure and
\* never both; it is the last stage event of the run, and the stage events
\* before it are a prefix of UPLOADING, TRANSCRIBING, ENHANCING, SAVING.
C30_OneTerminalStageEvent ==
  LET st == StagesCompleted(events)
      terminal == { k \in 1..Len(st) : st[k] \in TerminalStages }
  IN /\ Cardinality(terminal) <= 1
     /\ \A k \in terminal : k = Len(st)
     /\ \A k \in 1..Len(st) : k \notin terminal => (k <= 4 /\ st[k] = StageOrder[k])
     /\ pc = "done" =>
          /\ Cardinality(terminal) = 1
          /\ st[Len(st)] = (IF result.status = "ok" THEN "complete" ELSE "error")

(***************************************************************************)
(* The offline queue: races, restarts and storage errors                   *)
(***************************************************************************)
\* the operation has been handed to executeOperation at least once
Replayed(id) == \E k \in 1..Len(execLog) : execLog[k].id = id

Stored(id) == \E k \in 1..Len(persisted) : persisted[k].id = id

\* C23: no enqueued operation is lost to a race with replay: an operation added
\* by enqueue while a pass is in progress is still in the stored queue after the
\* pass completes, unless it was itself replayed.
C23_EnqueueDuringPassNotLost ==
  NoPassInProgress => \A id \in Enqueued : Stored(id) \/ Replayed(id)

\* replay k of the log failed and the operation was kept for a retry
FailedAndKept(k) ==
  /\ ~execLog[k].ok
  /\ Cardinality({ j \in 1..k : execLog[j].id = execLog[k].id /\ ~execLog[j].ok }) < 3

\* the first replay of the operation in the log; 0 when it has none
FirstReplay(id) ==
  IF Replayed(id)
    THEN CHOOSE k \in 1..Len(execLog) :
           /\ execLog[k].id = id
           /\ \A j \in 1..(k - 1) : execLog[j].id # id
    ELSE 0

\* C27 as stated: for a enqueued before b, b is never successfully executed
\* while a is still pending in the queue.
C27_FailedOperationBlocksLaterOnes ==
  \A j, k \in 1..Len(execLog) :
    (/\ j < k
     /\ execLog[j].pass = execLog[k].pass
     /\ execLog[j].id < execLog[k].id
     /\ FailedAndKept(j)) => ~execLog[k].ok

\* C27: for a enqueued before b, every pass that replays both replays a before
\* b, and the first replay of b never comes before the first replay of a; a
\* failed a does not block b, which may succeed in the same pass while a stays
\* queued for its retry.
C27_EarlierOperationReplayedFirst ==
  /\ \A j, k \in 1..Len(execLog) :
       (execLog[j].pass = execLog[k].pass /\ execLog[j].id < execLog[k].id) => j < k
  /\ \A a, b \in Enqueued :
       (a < b /\ Replayed(a) /\ Replayed(b)) => FirstReplay(a) < FirstReplay(b)

C27_Witness ==
  /\ NoPassInProgress
  /\ Len(execLog) = 2
  /\ execLog[1] = [pass |-> 1, id |-> 1, ok |-> FALSE]
  /\ execLog[2] = [pass |-> 1, id |-> 2, ok |-> TRUE]
  /\ Ids(persisted) = <<1>>

\* C25: an operation whose replay succeeded is never executed again by a later
\* pass, also when the process stops or restarts in the middle of a pass.
C25_SucceededNeverReplayedAgain ==
  \A j, k \in 1..Len(execLog) :
    (j < k /\ execLog[j].ok) => execLog[k].id # execLog[j].id

\* C26: the replay guard is always released: once a pass has ended, whether its
\* operations succeeded or failed or reading, parsing or writing the stored
\* queue raised an error, isSyncing is false again, so that a later
\* offline-to-online transition can start a new pass.
C26_GuardAlwaysReleased ==
  NoPassInProgress => ~isSyncing

\* the process was restarted with operations in the stored queue, and every
\* connectivity event since then, at least one, has reported a connection
BacklogAndOnlineSinceBoot ==
  /\ boot.n > 0
  /\ boot.stored # <<>>
  /\ netEvents > boot.netEvents
  /\ isOnline
  /\ syncCalls = boot.syncCalls

\* a pass has been started since the process started
PassSinceBoot == passesStarted > boot.passesStarted

\* C29: operations stored in the offline queue are eventually replayed after a
\* restart: when the process starts with a non-empty stored queue and
\* connectivity is available from the first connectivity event on, a pass is
\* eventually started, without a later offline-to-online transition.
C29_BacklogReplayedAfterRestart ==
  BacklogAndOnlineSinceBoot ~> (PassSinceBoot \/ ~BacklogAndOnlineSinceBoot)

(***************************************************************************)
(* Two runs                                                                *)
(***************************************************************************)
\* the object of the run with locals f
PathOf(f) == <<f.opts.userId, <<f.opts.recordingId, "m4a">>>>

\* the run with locals f has seen and done only what is its own: it deleted
\* nothing but its own object, no upload of it was rejected for an object it
\* had not sent itself, its result is made of its own locals, and the object and
\* the row of its successful result are in place
RunIsItsOwn(f) ==
  /\ \A k \in 1..Len(f.deleteLog) : f.deleteLog[k].path = PathOf(f)
  /\ Len(f.deleteLog) = f.calls.delete
  /\ f.calls.delete <= 1
  /\ \A k \in 1..Len(f.upLog) :
       (f.upLog[k] # NoError /\ f.upLog[k].kind = "exists") => k > 1
  /\ f.audioUrl # NoUrl => f.audioUrl[Len(f.audioUrl)] = <<f.opts.recordingId, "m4a">>
  /\ f.pc = "done" =>
       /\ f.result.audioUrl = f.audioUrl
       /\ f.result.originalTranscript = f.stageResult.transcription.text
       /\ f.result.status = "error" =>
            /\ f.result.error = f.thrown
            /\ f.result.recordingId = f.opts.recordingId
            /\ (f.thrown.stage # "upload") = (f.calls.delete = 1)
       /\ f.result.status = "ok" =>
            /\ f.calls.delete = 0
            /\ PathOf(f) \in store
            /\ \E row \in db : row.audio_url = f.audioUrl

\* C22: two runs of process for distinct recordingIds, interleaved in any way at
\* their await points, are independent: each run returns what it would return
\* alone, and the compensating delete of a run removes only its own uploaded
\* object, never the object of the other run.
C22_RunsAreIndependent ==
  /\ RunIsItsOwn(Frame)
  /\ RunIsItsOwn(other)
  /\ PathOf(Frame) # PathOf(other)

C22_Witness ==
  /\ pc = "done"
  /\ other.pc = "done"
  /\ result.status = "error"
  /\ deleteLog # <<>>
  /\ deleteLog[1].outcome = "ok"
  /\ other.result.status = "ok"
  /\ other.calls.insert = 1
  /\ PathOf(other) \in store
  /\ PathOf(Frame) \notin store

====
